---- MODULE Spec2Model ----
(***************************************************************************)
(* Model of the OpenPipe v1 API router (createChatCompletion) as a state   *)
(* machine.  Each request is a process with a program counter; a step of   *)
(* the model is the code that runs between two awaits of the handler.     *)
(* The recording tasks launched with `void` (recordUsage,                  *)
(* recordLoggedCall) are separate tasks that settle on their own.         *)
(***************************************************************************)
EXTENDS Integers, Sequences, FiniteSets, TLC

\* Number of concurrent createChatCompletion requests.
NumRequests == 2

Reqs == 1..NumRequests

(***************************************************************************)
(* Data                                                                    *)
(***************************************************************************)

\* A model identifier is a sequence of tokens; the reserved prefix is one token.
Prefix == "openpipe:"

\* Three custom model identifiers, an upstream model, and an identifier without
\* the prefix that reads like the slug of a custom model.
Models ==
  { <<Prefix, "mine">>, <<Prefix, "other">>, <<Prefix, "missing">>, <<"gpt-4">>,
    <<"mine">> }

\* ctx.key.projectId of the caller's API key.
KeyProject == "p1"

\* The fineTune table: two custom models, one per project.
FineTunes ==
  { [slug |-> <<"mine">>, projectId |-> "p1"],
    [slug |-> <<"other">>, projectId |-> "p2"] }

NoFineTune == [slug |-> <<>>, projectId |-> "none"]

\* ctx.headers["op-log-request"]
LogHeaders == {"absent", "true", "false"}

\* ctx.headers["op-tags"]: absent, a JSON object of scalars, text that is not
\* JSON, JSON that is not a flat mapping.
TagHeaders == {"absent", "valid", "badjson", "nested"}

\* Status codes an upstream APIError may carry.
ProviderStatuses == {404, 429, 503}

ProviderMessages == {"upstream message"}

NoMessage == <<>>

\* What a provider call settles with.
ProviderOutcomes ==
  [type : {"ok"}, kind : {"single", "stream"}, status : {0}, message : {NoMessage}]
  \cup [type : {"apiError"}, kind : {"none"}, status : ProviderStatuses,
        message : {<<m>> : m \in ProviderMessages}]
  \cup [type : {"otherError"}, kind : {"none"}, status : {0},
        message : {<<m>> : m \in ProviderMessages}]

(***************************************************************************)
(* Pure helpers                                                            *)
(***************************************************************************)

\* String.prototype.startsWith on token sequences.
StartsWith(s, p) == Len(s) >= 1 /\ s[1] = p

\* String.prototype.replace(p, ""): removes the first occurrence of p.
RECURSIVE Replace(_, _)
Replace(s, p) ==
  IF s = <<>> THEN <<>>
  ELSE IF Head(s) = p THEN Tail(s)
  ELSE <<Head(s)>> \o Replace(Tail(s), p)

\* inputPayload.model.startsWith("openpipe:")
IsFineTune(model) == StartsWith(model, Prefix)

\* The logRequest flag of createChatCompletion.
LogRequest(logHeader, isFineTune, readOnly) ==
  /\ (logHeader = "true" \/ ~isFineTune)
  /\ logHeader # "false"
  /\ ~readOnly

\* JSON.parse followed by parseTags on the op-tags header.
ParseTagsHeader(h) ==
  CASE h = "absent" -> [ok |-> TRUE, tags |-> {}, error |-> ""]
    [] h = "valid" -> [ok |-> TRUE, tags |-> {<<"k", "v">>}, error |-> ""]
    [] h = "badjson" -> [ok |-> FALSE, tags |-> {}, error |-> "Unexpected token"]
    [] h = "nested" -> [ok |-> FALSE, tags |-> {}, error |-> "Invalid tags"]

\* prisma.fineTune.findUnique({ where: { slug } }) ?? undefined
FindUnique(slug) ==
  IF \E ft \in FineTunes : ft.slug = slug
  THEN CHOOSE ft \in FineTunes : ft.slug = slug
  ELSE NoFineTune

typedFineTune(ft) == ft

\* HTTP status of a tRPC error code.
statusCodeFromTrpcCode(code) ==
  CASE code = "PARSE_ERROR" -> 400
    [] code = "BAD_REQUEST" -> 400
    [] code = "UNAUTHORIZED" -> 401
    [] code = "FORBIDDEN" -> 403
    [] code = "NOT_FOUND" -> 404
    [] code = "TOO_MANY_REQUESTS" -> 429
    [] code = "INTERNAL_SERVER_ERROR" -> 500

\* tRPC error code of an HTTP status; a status with no code of its own falls
\* back to INTERNAL_SERVER_ERROR.
trpcCodeFromHttpStatus(status) ==
  CASE status = 400 -> "BAD_REQUEST"
    [] status = 401 -> "UNAUTHORIZED"
    [] status = 403 -> "FORBIDDEN"
    [] status = 404 -> "NOT_FOUND"
    [] status = 429 -> "TOO_MANY_REQUESTS"
    [] OTHER -> "INTERNAL_SERVER_ERROR"

(***************************************************************************)
(* The inputs of report                                                    *)
(***************************************************************************)

\* Number of report calls in flight.
NumReports == 2

ReportCalls == 1..NumReports

\* reqPayload is unknown JSON: a chat completion request naming a model, or
\* something reqValidator rejects.
ReportReqPayloads ==
  { [valid |-> TRUE, model |-> m] :
      m \in { <<Prefix, "mine">>, <<Prefix, "missing">>, <<"gpt-4">>, <<"mine">> } }
    \cup { [valid |-> FALSE, model |-> <<>>] }

\* respPayload is optional unknown JSON: left out, an empty object, or a chat
\* completion.
ReportRespPayloads == {"absent", "empty", "completion"}

\* tags default to {}; parseTags accepts or rejects the ones supplied.
ReportTags == {"absent", "accepted", "rejected"}

ReportInputs ==
  [readOnly : BOOLEAN, reqPayload : ReportReqPayloads,
   respPayload : ReportRespPayloads, tags : ReportTags]

\* reqValidator.spa(input.reqPayload)
reqValidatorSpa(p) == [success |-> p.valid, data |-> p]

\* chatCompletionOutput.spa(input.respPayload)
chatCompletionOutputSpa(p) == [success |-> p = "completion", data |-> p]

\* parseTags(input.tags)
parseTags(t) ==
  CASE t = "absent" -> [ok |-> TRUE, tags |-> {}, error |-> ""]
    [] t = "accepted" -> [ok |-> TRUE, tags |-> {<<"k", "v">>}, error |-> ""]
    [] t = "rejected" -> [ok |-> FALSE, tags |-> {}, error |-> "Invalid tags"]

NoUsage == [set |-> FALSE, model |-> <<>>, fineTune |-> <<>>]

\* calculateUsage({ inputPayload, completion, fineTune }): the usage of the
\* pair, priced for the fineTune when one is given.
calculateUsage(inputPayload, completion, fineTune) ==
  [set |-> TRUE, model |-> inputPayload.model, fineTune |-> fineTune.slug]

(***************************************************************************)
(* The streams of a streamed response                                      *)
(***************************************************************************)

\* Longest provider stream considered.
MaxChunks == 3

ChunkValues == {"a", "b"}

\* The provider's streams: every sequence of at most MaxChunks chunks.
ChunkSeqs == UNION {[1..n -> ChunkValues] : n \in 0..MaxChunks}

\* The n-th result of the provider stream's iterator: a chunk, then done.
SourceItem(cs, n) ==
  IF n <= Len(cs) THEN [done |-> FALSE, value |-> cs[n]]
  ELSE [done |-> TRUE, value |-> ""]

\* next() on one branch of completion.tee(): when the branch's own queue is
\* empty the next result of the provider's stream is taken and put on both
\* queues; the head of the own queue is returned.
TeeNext(cs, own, other, n) ==
  LET fill == own = <<>>
      own1 == IF fill THEN Append(own, SourceItem(cs, n + 1)) ELSE own
  IN [item |-> Head(own1), own |-> Tail(own1),
      other |-> IF fill THEN Append(other, SourceItem(cs, n + 1)) ELSE other,
      pulled |-> IF fill THEN n + 1 ELSE n]

\* next() on the stream called name: the provider's stream itself, or one of
\* the two branches of its split.
ReadNext(name, cs, qr, qo, n) ==
  CASE name = "recordStream" ->
         LET t == TeeNext(cs, qr, qo, n)
         IN [item |-> t.item, qRecord |-> t.own, qOutput |-> t.other,
             pulled |-> t.pulled]
    [] name = "outputStream" ->
         LET t == TeeNext(cs, qo, qr, n)
         IN [item |-> t.item, qRecord |-> t.other, qOutput |-> t.own,
             pulled |-> t.pulled]
    [] name = "completion" ->
         [item |-> SourceItem(cs, n + 1), qRecord |-> qr, qOutput |-> qo,
          pulled |-> n + 1]

(***************************************************************************)
(* Timestamps                                                              *)
(***************************************************************************)

\* Latest clock reading considered.
MaxTime == 3

\* Number of calls whose timestamps are followed.
NumTimed == 2

TimedCalls == 1..NumTimed

\* A timestamp left out of the input of report (undefined, or 0, which
\* !input.requestedAt treats alike).
Absent == 0

Times == 1..MaxTime

NoStamps == [op |-> "none", requestedAt |-> Absent, receivedAt |-> Absent]

(***************************************************************************)
(* The inputs of importDatasetEntries                                      *)
(***************************************************************************)

\* Rows per createMany call.
BatchSize == 1000

\* datasetFileUpload.fileSize, in bytes.
FileSizes == {2, 4}

\* Numbers of rows of the file that parse, and that do not.
GoodRowCounts == {0, 1, 1001, 2500}

ErrorRowCounts == {0, 2}

\* maxEntriesToImport
MaxEntriesChoices == {2000, 5000}

ImportInputs ==
  [exists : BOOLEAN, fileSize : FileSizes, goodRows : GoodRowCounts,
   errorRows : ErrorRowCounts, maxEntriesToImport : MaxEntriesChoices,
   prepareOk : BOOLEAN]

NoImportInput ==
  [exists |-> FALSE, fileSize |-> 2, goodRows |-> 0, errorRows |-> 0,
   maxEntriesToImport |-> 2000, prepareOk |-> TRUE]

\* The datasetFileUpload row before the job touches it.
NewUpload == [status |-> "PENDING", progress |-> 0, errorMessage |-> "", visible |-> FALSE]

Min(a, b) == IF a <= b THEN a ELSE b

\* 5 + Math.floor((progress / datasetFileUpload.fileSize) * 60)
DownloadProgressValue(progress, fileSize) == 5 + ((progress * 60) \div fileSize)

\* base + Math.floor(span * (i / length))
BatchProgressValue(base, span, i, length) == base + ((span * i) \div length)

\* !goodRows.length || errorRows.length > goodRows.length
RowsRejected(input) == input.goodRows = 0 \/ input.errorRows > input.goodRows

\* goodRows.slice(0, maxEntriesToImport).length
EntriesToImport(input) == Min(input.goodRows, input.maxEntriesToImport)

\* prepareDatasetEntriesForImport: one input, one output and one node-data
\* row per entry.
PreparedRows(input) == EntriesToImport(input)

(***************************************************************************)
(* The inputs of authorize                                                 *)
(***************************************************************************)

\* Number of authorize calls.
NumAuth == 3

AuthCalls == 1..NumAuth

\* credentials.email: left out, or one of two addresses.
NoEmail == ""

Emails == {"a@example.com", "b@example.com"}

\* No user.
NoUser == 0

NoAuthCall ==
  [email |-> NoEmail, user |-> NoUser, createdUser |-> FALSE,
   createdAccount |-> FALSE, result |-> "none"]

(***************************************************************************)
(* State                                                                   *)
(***************************************************************************)

VARIABLES
  pc,            \* where each request's handler is
  locals,        \* the handler's locals: model, isFineTune, logRequest, tags
  lookups,       \* number of fineTune lookups each request has made
  providerCalls, \* the provider calls each request has made, in order
  providerResult,\* what the provider call of each request settled with
  result,        \* what the caller of each request has received
  task,          \* the recording task each request launched
  launches,      \* number of recording tasks each request launched
  loggedCalls,   \* the LoggedCall rows written for each request, in order
  captured,      \* number of exceptions passed to captureException
  unhandled      \* number of unhandled promise rejections

routerVars ==
  <<pc, locals, lookups, providerCalls, providerResult, result, task, launches,
    loggedCalls, captured, unhandled>>

\* The state of the report mutation, one handler per call.
VARIABLES
  repPc,         \* where each report call's handler is
  repInput,      \* the input and the key each report call came with
  repLocals,     \* the handler's locals: lookups made, fineTune, usage, tags
  repResult,     \* what the caller of each report call has received
  repLog         \* the LoggedCall table, in order of insertion

reportVars == <<repPc, repInput, repLocals, repResult, repLog>>

\* The state of one streamed response from the split onwards.
VARIABLES
  chunks,        \* the chunks the provider's stream delivers, in order
  pulled,        \* number of results taken from the provider's stream so far
  consumes,      \* the stream handed to recordUsage and the one returned
  qRecord,       \* results buffered for recordStream
  qOutput,       \* results buffered for outputStream
  seenRecord,    \* the chunks recordUsage has read, in order
  seenOutput,    \* the chunks the caller has read, in order
  stRecord,      \* idle, reading, done or stopped (stalled or crashed)
  stOutput,      \* idle, reading, done or stopped (disconnected)
  streamUsage    \* the usage recorded for the stream

streamVars ==
  <<chunks, pulled, consumes, qRecord, qOutput, seenRecord, seenOutput, stRecord,
    stOutput, streamUsage>>

\* The clock and the timestamps of the calls, taken on their own.
VARIABLES
  now,           \* what Date.now() returns
  tsPc,          \* idle, requested (requestedAt taken) or recorded
  ts             \* the operation and the timestamps passed to the recording

timeVars == <<now, tsPc, ts>>

\* The state of one importDatasetEntries job.
VARIABLES
  impPc,         \* where the job is
  impInput,      \* the upload, the parsed rows and the arguments of the job
  impI,          \* the loop variable i of the batch loop being run
  impLast,       \* the bytes reported by the last download progress report
  upload,        \* the datasetFileUpload row
  statusLog,     \* the statuses the job has set, in order
  batches,       \* the createMany calls made, in order
  enqueued       \* number of countDatasetEntryTokens tasks enqueued

importVars ==
  <<impPc, impInput, impI, impLast, upload, statusLog, batches, enqueued>>

\* The state of the credentials sign-in.
VARIABLES
  authPc,        \* where each authorize call is
  authCall,      \* each call's email, the user it holds, what it created, its result
  users,         \* the user table
  accounts       \* the account table

authVars == <<authPc, authCall, users, accounts>>

vars == <<routerVars, reportVars, streamVars, timeVars, importVars, authVars>>

\* What each part of the model leaves alone.
otherThanRouter == <<reportVars, streamVars, timeVars, importVars, authVars>>

otherThanReport == <<routerVars, streamVars, timeVars, importVars, authVars>>

otherThanStream == <<routerVars, reportVars, timeVars, importVars, authVars>>

otherThanTime == <<routerVars, reportVars, streamVars, importVars, authVars>>

otherThanImport == <<routerVars, reportVars, streamVars, timeVars, authVars>>

otherThanAuth == <<routerVars, reportVars, streamVars, timeVars, importVars>>

NoOutcome == [type |-> "none", kind |-> "none", status |-> 0, message |-> NoMessage]

NoLocals ==
  [parsed |-> FALSE, model |-> <<>>, isFineTune |-> FALSE, logRequest |-> FALSE,
   tagsHeader |-> "absent", tags |-> {}]

NoResult == [kind |-> "none", code |-> "", status |-> 0, message |-> NoMessage]

NoRow ==
  [statusCode |-> 0, errorMessage |-> NoMessage,
   respPayload |-> [kind |-> "none", code |-> "", message |-> NoMessage],
   usage |-> "unset", tags |-> {}]

NoTask == [fn |-> "none", state |-> "none", logRequest |-> FALSE, row |-> NoRow]

NoStreamUsage == [set |-> FALSE, of |-> <<>>]

NoReportInput ==
  [readOnly |-> FALSE, reqPayload |-> [valid |-> FALSE, model |-> <<>>],
   respPayload |-> "absent", tags |-> "absent"]

NoReportLocals ==
  [lookups |-> <<>>, fineTune |-> NoFineTune, usage |-> NoUsage, tags |-> {},
   write |-> "none"]

Init ==
  /\ pc = [r \in Reqs |-> "idle"]
  /\ locals = [r \in Reqs |-> NoLocals]
  /\ lookups = [r \in Reqs |-> 0]
  /\ providerCalls = [r \in Reqs |-> <<>>]
  /\ providerResult = [r \in Reqs |-> NoOutcome]
  /\ result = [r \in Reqs |-> NoResult]
  /\ task = [r \in Reqs |-> NoTask]
  /\ launches = [r \in Reqs |-> 0]
  /\ loggedCalls = [r \in Reqs |-> <<>>]
  /\ captured = [r \in Reqs |-> 0]
  /\ unhandled = [r \in Reqs |-> 0]
  /\ repPc = [c \in ReportCalls |-> "idle"]
  /\ repInput = [c \in ReportCalls |-> NoReportInput]
  /\ repLocals = [c \in ReportCalls |-> NoReportLocals]
  /\ repResult = [c \in ReportCalls |-> NoResult]
  /\ repLog = <<>>
  /\ chunks = <<>>
  /\ pulled = 0
  /\ consumes = [record |-> "none", output |-> "none"]
  /\ qRecord = <<>>
  /\ qOutput = <<>>
  /\ seenRecord = <<>>
  /\ seenOutput = <<>>
  /\ stRecord = "idle"
  /\ stOutput = "idle"
  /\ streamUsage = NoStreamUsage
  /\ now = 1
  /\ tsPc = [k \in TimedCalls |-> "idle"]
  /\ ts = [k \in TimedCalls |-> NoStamps]
  /\ impPc = "idle"
  /\ impInput = NoImportInput
  /\ impI = 0
  /\ impLast = 0
  /\ upload = NewUpload
  /\ statusLog = <<>>
  /\ batches = <<>>
  /\ enqueued = 0
  /\ authPc = [a \in AuthCalls |-> "idle"]
  /\ authCall = [a \in AuthCalls |-> NoAuthCall]
  /\ users = {}
  /\ accounts = {}

(***************************************************************************)
(* The catch block and the success tail of createChatCompletion            *)
(***************************************************************************)

\* The ExtendedTRPCError thrown to the caller for a TRPCError (code, message).
ExtendedTRPCError(code, message) ==
  [kind |-> "error", code |-> code, status |-> statusCodeFromTrpcCode(code),
   message |-> message]

\* The arguments of the recordLoggedCall call of the catch block.
FailedCallRow(code, message, tags) ==
  [statusCode |-> statusCodeFromTrpcCode(code),
   errorMessage |-> message,
   respPayload |-> [kind |-> "error", code |-> code, message |-> message],
   usage |-> "unset",
   tags |-> tags]

\* A non-TRPCError rethrown as it is, or an exception thrown outside the try.
RawError(name) == [kind |-> "raw", code |-> "", status |-> 0, message |-> <<name>>]

\* Mutant of CatchTRPCError: the error is thrown without recording the failed call.
CatchTRPCErrorNoRecord(r, code, message, tags) ==
  /\ result' = [result EXCEPT ![r] = ExtendedTRPCError(code, message)]
  /\ pc' = [pc EXCEPT ![r] = "done"]
  /\ UNCHANGED <<task, launches>>

\* catch (error) with error instanceof TRPCError: launch recordLoggedCall without
\* awaiting it, then throw the ExtendedTRPCError.
CatchTRPCError(r, code, message, tags) ==
  /\ task' = [task EXCEPT ![r] =
               [fn |-> "recordLoggedCall", state |-> "pending",
                logRequest |-> FALSE, row |-> FailedCallRow(code, message, tags)]]
  /\ launches' = [launches EXCEPT ![r] = @ + 1]
  /\ result' = [result EXCEPT ![r] = ExtendedTRPCError(code, message)]
  /\ pc' = [pc EXCEPT ![r] = "done"]

\* catch (error) with any other error: throw error.
Rethrow(r, name) ==
  /\ result' = [result EXCEPT ![r] = RawError(name)]
  /\ pc' = [pc EXCEPT ![r] = "done"]
  /\ UNCHANGED <<task, launches>>

\* The Logged Call recordUsage writes for a completion.
UsageRow(kind, tags) ==
  [statusCode |-> 200,
   errorMessage |-> NoMessage,
   respPayload |-> [kind |-> kind, code |-> "", message |-> NoMessage],
   usage |-> "set",
   tags |-> tags]

\* Mutant of ReturnCompletion: the handler awaits recordUsage before it returns.
ReturnCompletionAwaits(r, kind) ==
  /\ task' = [task EXCEPT ![r] =
               [fn |-> "recordUsage", state |-> "pending",
                logRequest |-> locals[r].logRequest,
                row |-> UsageRow(kind, locals[r].tags)]]
  /\ launches' = [launches EXCEPT ![r] = @ + 1]
  /\ pc' = [pc EXCEPT ![r] = "awaitRecord"]
  /\ UNCHANGED result

\* The return after recordUsage throws a TRPCError into the catch block, which
\* launches recordLoggedCall as well.
ReturnCompletionThenCatches(r, kind) ==
  /\ task' = [task EXCEPT ![r] =
               [fn |-> "recordUsage", state |-> "pending",
                logRequest |-> locals[r].logRequest,
                row |-> UsageRow(kind, locals[r].tags)]]
  /\ launches' = [launches EXCEPT ![r] = @ + 2]
  /\ result' = [result EXCEPT ![r] =
                 [kind |-> IF kind = "stream" THEN "stream" ELSE "completion",
                  code |-> "", status |-> 0, message |-> NoMessage]]
  /\ pc' = [pc EXCEPT ![r] = "done"]

\* The tail of the try block: launch recordUsage without awaiting it and return
\* the completion, or the output branch of its stream.
ReturnCompletion(r, kind) ==
  /\ task' = [task EXCEPT ![r] =
               [fn |-> "recordUsage", state |-> "pending",
                logRequest |-> locals[r].logRequest,
                row |-> UsageRow(kind, locals[r].tags)]]
  /\ launches' = [launches EXCEPT ![r] = @ + 1]
  /\ result' = [result EXCEPT ![r] =
                 [kind |-> IF kind = "stream" THEN "stream" ELSE "completion",
                  code |-> "", status |-> 0, message |-> NoMessage]]
  /\ pc' = [pc EXCEPT ![r] = "done"]

(***************************************************************************)
(* The handler, one action per stretch of code between awaits              *)
(***************************************************************************)

\* createChatCompletion going on to the lookup or the provider call whatever
\* the op-tags header holds.
StartTagsIgnored(r) ==
  /\ pc[r] = "idle"
  /\ \E payloadOk \in BOOLEAN, model \in Models, logHeader \in LogHeaders,
        readOnly \in BOOLEAN, tagsHeader \in TagHeaders :
       IF ~payloadOk
       THEN \* chatCompletionInputReqPayload.parse throws, outside the try
            /\ Rethrow(r, "ZodError")
            /\ UNCHANGED <<locals, lookups, providerCalls>>
       ELSE LET isFT == IsFineTune(model)
                parsed == ParseTagsHeader(tagsHeader)
                loc == [parsed |-> TRUE, model |-> model, isFineTune |-> isFT,
                        logRequest |-> LogRequest(logHeader, isFT, readOnly),
                        tagsHeader |-> tagsHeader, tags |-> parsed.tags]
            IN /\ locals' = [locals EXCEPT ![r] = loc]
               /\ IF FALSE
                  THEN /\ CatchTRPCError(r, "BAD_REQUEST",
                                         <<"Failed to parse tags: ", parsed.error>>, {})
                       /\ UNCHANGED <<lookups, providerCalls>>
                  ELSE IF isFT
                  THEN /\ pc' = [pc EXCEPT ![r] = "lookup"]
                       /\ lookups' = [lookups EXCEPT ![r] = @ + 1]
                       /\ UNCHANGED <<providerCalls, result, task, launches>>
                  ELSE /\ pc' = [pc EXCEPT ![r] = "openaiCall"]
                       /\ providerCalls' =
                            [providerCalls EXCEPT ![r] = Append(@, "getOpenaiCompletion")]
                       /\ UNCHANGED <<lookups, result, task, launches>>
  /\ UNCHANGED <<providerResult, loggedCalls, captured, unhandled>>

\* From the entry of the mutation to its first await.
Start(r) ==
  /\ pc[r] = "idle"
  /\ \E payloadOk \in BOOLEAN, model \in Models, logHeader \in LogHeaders,
        readOnly \in BOOLEAN, tagsHeader \in TagHeaders :
       IF ~payloadOk
       THEN \* chatCompletionInputReqPayload.parse throws, outside the try
            /\ Rethrow(r, "ZodError")
            /\ UNCHANGED <<locals, lookups, providerCalls>>
       ELSE LET isFT == IsFineTune(model)
                parsed == ParseTagsHeader(tagsHeader)
                loc == [parsed |-> TRUE, model |-> model, isFineTune |-> isFT,
                        logRequest |-> LogRequest(logHeader, isFT, readOnly),
                        tagsHeader |-> tagsHeader, tags |-> parsed.tags]
            IN /\ locals' = [locals EXCEPT ![r] = loc]
               /\ IF ~parsed.ok
                  THEN /\ CatchTRPCError(r, "BAD_REQUEST",
                                         <<"Failed to parse tags: ", parsed.error>>, {})
                       /\ UNCHANGED <<lookups, providerCalls>>
                  ELSE IF isFT
                  THEN /\ pc' = [pc EXCEPT ![r] = "lookup"]
                       /\ lookups' = [lookups EXCEPT ![r] = @ + 1]
                       /\ UNCHANGED <<providerCalls, result, task, launches>>
                  ELSE /\ pc' = [pc EXCEPT ![r] = "openaiCall"]
                       /\ providerCalls' =
                            [providerCalls EXCEPT ![r] = Append(@, "getOpenaiCompletion")]
                       /\ UNCHANGED <<lookups, result, task, launches>>
  /\ UNCHANGED <<providerResult, loggedCalls, captured, unhandled>>

\* Mutant of LookupReturns: getCompletion2 is called before the existence and
\* ownership checks.
LookupReturnsCallsFirst(r) ==
  /\ pc[r] = "lookup"
  /\ LET fineTune == FindUnique(Replace(locals[r].model, Prefix))
         typedFT == typedFineTune(fineTune)
     IN /\ providerCalls' = [providerCalls EXCEPT ![r] = Append(@, "getCompletion2")]
        /\ IF fineTune = NoFineTune
           THEN CatchTRPCError(r, "NOT_FOUND",
                               <<"The model does not exist: ", locals[r].model>>,
                               locals[r].tags)
           ELSE IF typedFT.projectId # KeyProject
           THEN CatchTRPCError(r, "FORBIDDEN",
                               <<"The model does not belong to this project">>,
                               locals[r].tags)
           ELSE /\ pc' = [pc EXCEPT ![r] = "ftCall"]
                /\ UNCHANGED <<result, task, launches>>
  /\ UNCHANGED <<locals, lookups, providerResult, loggedCalls, captured, unhandled>>

\* Mutant of LookupReturns: the ownership check is missing.
LookupReturnsNoOwnerCheck(r) ==
  /\ pc[r] = "lookup"
  /\ LET fineTune == FindUnique(Replace(locals[r].model, Prefix))
     IN IF fineTune = NoFineTune
        THEN /\ CatchTRPCError(r, "NOT_FOUND",
                               <<"The model does not exist: ", locals[r].model>>,
                               locals[r].tags)
             /\ UNCHANGED providerCalls
        ELSE /\ pc' = [pc EXCEPT ![r] = "ftCall"]
             /\ providerCalls' =
                  [providerCalls EXCEPT ![r] = Append(@, "getCompletion2")]
             /\ UNCHANGED <<result, task, launches>>
  /\ UNCHANGED <<locals, lookups, providerResult, loggedCalls, captured, unhandled>>

\* prisma.fineTune.findUnique settles: existence check, ownership check, then
\* the call of the custom model provider.
LookupReturns(r) ==
  /\ pc[r] = "lookup"
  /\ \E dbOk \in BOOLEAN :
       IF ~dbOk
       THEN /\ Rethrow(r, "PrismaError")
            /\ UNCHANGED providerCalls
       ELSE LET fineTune == FindUnique(Replace(locals[r].model, Prefix))
                typedFT == typedFineTune(fineTune)
            IN IF fineTune = NoFineTune
               THEN /\ CatchTRPCError(r, "NOT_FOUND",
                                      <<"The model does not exist: ", locals[r].model>>,
                                      locals[r].tags)
                    /\ UNCHANGED providerCalls
               ELSE IF typedFT.projectId # KeyProject
               THEN /\ CatchTRPCError(r, "FORBIDDEN",
                                      <<"The model does not belong to this project">>,
                                      locals[r].tags)
                    /\ UNCHANGED providerCalls
               ELSE /\ pc' = [pc EXCEPT ![r] = "ftCall"]
                    /\ providerCalls' =
                         [providerCalls EXCEPT ![r] = Append(@, "getCompletion2")]
                    /\ UNCHANGED <<result, task, launches>>
  /\ UNCHANGED <<locals, lookups, providerResult, loggedCalls, captured, unhandled>>

\* Mutant of FineTuneReturns: a failure of getCompletion2 falls back to the
\* upstream provider.
FineTuneReturnsFallsBack(r) ==
  /\ pc[r] = "ftCall"
  /\ \E out \in ProviderOutcomes :
       /\ providerResult' = [providerResult EXCEPT ![r] = out]
       /\ IF out.type = "ok"
          THEN /\ ReturnCompletion(r, out.kind)
               /\ UNCHANGED providerCalls
          ELSE /\ pc' = [pc EXCEPT ![r] = "openaiCall"]
               /\ providerCalls' =
                    [providerCalls EXCEPT ![r] = Append(@, "getOpenaiCompletion")]
               /\ UNCHANGED <<result, task, launches>>
  /\ UNCHANGED <<locals, lookups, loggedCalls, captured, unhandled>>

\* getCompletion2 settles.
FineTuneReturns(r) ==
  /\ pc[r] = "ftCall"
  /\ \E out \in ProviderOutcomes :
       /\ providerResult' = [providerResult EXCEPT ![r] = out]
       /\ IF out.type = "ok"
          THEN ReturnCompletion(r, out.kind)
          ELSE CatchTRPCError(r, "BAD_REQUEST",
                              <<"Failed to get fine-tune completion: ">> \o out.message,
                              locals[r].tags)
  /\ UNCHANGED <<locals, lookups, providerCalls, loggedCalls, captured, unhandled>>

\* Mutant of OpenaiReturns: a non-API failure is wrapped as INTERNAL_SERVER_ERROR.
OpenaiReturnsInternal(r) ==
  /\ pc[r] = "openaiCall"
  /\ \E out \in ProviderOutcomes :
       /\ providerResult' = [providerResult EXCEPT ![r] = out]
       /\ CASE out.type = "ok" -> ReturnCompletion(r, out.kind)
            [] out.type = "apiError" ->
                 CatchTRPCError(r, trpcCodeFromHttpStatus(out.status), out.message,
                                locals[r].tags)
            [] out.type = "otherError" ->
                 CatchTRPCError(r, "INTERNAL_SERVER_ERROR",
                                <<"Failed to get OpenAI completion: ">> \o out.message,
                                locals[r].tags)
  /\ UNCHANGED <<locals, lookups, providerCalls, loggedCalls, captured, unhandled>>

\* getOpenaiCompletion settles.
OpenaiReturns(r) ==
  /\ pc[r] = "openaiCall"
  /\ \E out \in ProviderOutcomes :
       /\ providerResult' = [providerResult EXCEPT ![r] = out]
       /\ CASE out.type = "ok" -> ReturnCompletion(r, out.kind)
            [] out.type = "apiError" ->
                 CatchTRPCError(r, trpcCodeFromHttpStatus(out.status), out.message,
                                locals[r].tags)
            [] out.type = "otherError" ->
                 CatchTRPCError(r, "BAD_REQUEST",
                                <<"Failed to get OpenAI completion: ">> \o out.message,
                                locals[r].tags)
  /\ UNCHANGED <<locals, lookups, providerCalls, loggedCalls, captured, unhandled>>

(***************************************************************************)
(* The recording tasks                                                     *)
(***************************************************************************)

\* What handles a rejection of the recording promise: nothing.
RejectionUnhandled == "none"

\* void recordUsage({...}).catch((e) => captureException(e)): a rejection of
\* the usage recording goes to captureException.
OnRecordUsageRejected == "captureException"

\* void recordLoggedCall({...}) in the catch block: the promise is discarded
\* with no rejection handler attached.
OnRecordLoggedCallRejected == "none"

\* recordUsage(...) settles: it writes the Logged Call when logRequest is set;
\* a rejection goes to the handler attached where the task was launched.
RecordUsageSettles(r) ==
  /\ task[r].fn = "recordUsage"
  /\ task[r].state = "pending"
  /\ \E ok \in BOOLEAN :
       IF ok
       THEN /\ task' = [task EXCEPT ![r].state = "done"]
            /\ loggedCalls' =
                 [loggedCalls EXCEPT ![r] =
                    IF task[r].logRequest THEN Append(@, task[r].row) ELSE @]
            /\ UNCHANGED <<captured, unhandled>>
       ELSE /\ task' = [task EXCEPT ![r].state = "failed"]
            /\ IF OnRecordUsageRejected = "captureException"
               THEN captured' = [captured EXCEPT ![r] = @ + 1] /\ UNCHANGED unhandled
               ELSE unhandled' = [unhandled EXCEPT ![r] = @ + 1] /\ UNCHANGED captured
            /\ UNCHANGED loggedCalls
  /\ UNCHANGED <<pc, locals, lookups, providerCalls, providerResult, result, launches>>

\* recordLoggedCall(...) settles: it writes the Logged Call; a rejection goes
\* to the handler attached where the task was launched, if there is one.
RecordLoggedCallSettles(r) ==
  /\ task[r].fn = "recordLoggedCall"
  /\ task[r].state = "pending"
  /\ \E ok \in BOOLEAN :
       IF ok
       THEN /\ task' = [task EXCEPT ![r].state = "done"]
            /\ loggedCalls' = [loggedCalls EXCEPT ![r] = Append(@, task[r].row)]
            /\ UNCHANGED <<captured, unhandled>>
       ELSE /\ task' = [task EXCEPT ![r].state = "failed"]
            /\ IF OnRecordLoggedCallRejected = "captureException"
               THEN captured' = [captured EXCEPT ![r] = @ + 1] /\ UNCHANGED unhandled
               ELSE unhandled' = [unhandled EXCEPT ![r] = @ + 1] /\ UNCHANGED captured
            /\ UNCHANGED loggedCalls
  /\ UNCHANGED <<pc, locals, lookups, providerCalls, providerResult, result, launches>>

Next ==
  \E r \in Reqs :
    \/ Start(r) /\ UNCHANGED otherThanRouter
    \/ LookupReturns(r) /\ UNCHANGED otherThanRouter
    \/ FineTuneReturns(r) /\ UNCHANGED otherThanRouter
    \/ OpenaiReturns(r) /\ UNCHANGED otherThanRouter
    \/ RecordUsageSettles(r) /\ UNCHANGED otherThanRouter
    \/ RecordLoggedCallSettles(r) /\ UNCHANGED otherThanRouter

Spec == Init /\ [][Next]_vars

\* The handler's continuations run once the awaited call settles; nothing is
\* assumed of the recording tasks, which may never settle.
HandlerFairness ==
  \A r \in Reqs :
    /\ WF_vars(LookupReturns(r) /\ UNCHANGED otherThanRouter)
    /\ WF_vars(FineTuneReturns(r) /\ UNCHANGED otherThanRouter)
    /\ WF_vars(OpenaiReturns(r) /\ UNCHANGED otherThanRouter)

FairSpec == Spec /\ HandlerFairness

(***************************************************************************)
(* report                                                                  *)
(***************************************************************************)

\* throw new TRPCError({ message, code }) out of report.
ReportThrows(c, code, message) ==
  /\ repResult' = [repResult EXCEPT ![c] = ExtendedTRPCError(code, <<message>>)]
  /\ repPc' = [repPc EXCEPT ![c] = "done"]

\* Usage is computed whenever the response payload validates.
ComputesUsageFromResponse(reqPayload, respPayload) == respPayload.success

\* if (reqPayload.success && respPayload.success)
ComputesUsage(reqPayload, respPayload) == reqPayload.success /\ respPayload.success

\* The arguments of recordLoggedCall in report: the payloads as supplied, the
\* usage computed here, the parsed tags.  id is the key the table gives the
\* row; call remembers which call wrote it.
ReportRow(c, input, loc) ==
  [id |-> Len(repLog) + 1, call |-> c, reqPayload |-> input.reqPayload,
   respPayload |-> input.respPayload, usage |-> loc.usage, tags |-> loc.tags]

\* Two rows recording the same payloads.
SamePayload(row, other) ==
  /\ row.reqPayload = other.reqPayload
  /\ row.respPayload = other.respPayload
  /\ row.usage = other.usage
  /\ row.tags = other.tags

\* recordLoggedCall inserts one row.
recordLoggedCall(table, row) == Append(table, row)

\* tags = parseTags(input.tags), BAD_REQUEST when it throws; then the call of
\* recordLoggedCall, which the handler awaits.
ParseTagsAndRecord(c, input, loc) ==
  LET parsed == parseTags(input.tags)
  IN IF ~parsed.ok
     THEN /\ ReportThrows(c, "BAD_REQUEST", "Failed to parse tags")
          /\ repLocals' = [repLocals EXCEPT ![c] = loc]
     ELSE /\ repPc' = [repPc EXCEPT ![c] = "recording"]
          /\ repLocals' =
               [repLocals EXCEPT ![c] =
                  [loc EXCEPT !.tags = parsed.tags, !.write = "pending"]]
          /\ UNCHANGED repResult

\* report with no test of the key.
ReportStartNoKeyCheck(c) ==
  /\ repPc[c] = "idle"
  /\ \E input \in ReportInputs :
       /\ repInput' = [repInput EXCEPT ![c] = input]
       /\ IF FALSE
          THEN ReportThrows(c, "FORBIDDEN", "Read-only API keys cannot report API calls")
          ELSE /\ repPc' = [repPc EXCEPT ![c] = "reqValidating"]
               /\ UNCHANGED repResult
  /\ UNCHANGED <<repLocals, repLog>>

\* From the entry of report to its first await: the test of the key, the
\* default of requestedAt, and the call of reqValidator.spa.
ReportStart(c) ==
  /\ repPc[c] = "idle"
  /\ \E input \in ReportInputs :
       /\ repInput' = [repInput EXCEPT ![c] = input]
       /\ IF input.readOnly
          THEN ReportThrows(c, "FORBIDDEN", "Read-only API keys cannot report API calls")
          ELSE /\ repPc' = [repPc EXCEPT ![c] = "reqValidating"]
               /\ UNCHANGED repResult
  /\ UNCHANGED <<repLocals, repLog>>

\* await reqValidator.spa(input.reqPayload) returns and
\* chatCompletionOutput.spa(input.respPayload) is called.
ReportReqValidated(c) ==
  /\ repPc[c] = "reqValidating"
  /\ repPc' = [repPc EXCEPT ![c] = "respValidating"]
  /\ UNCHANGED <<repInput, repLocals, repResult, repLog>>

\* report rejecting a call whose response payload does not validate.
ReportRespValidatedRequiresResponse(c) ==
  /\ repPc[c] = "respValidating"
  /\ LET reqPayload == reqValidatorSpa(repInput[c].reqPayload)
         respPayload == chatCompletionOutputSpa(repInput[c].respPayload)
     IN IF ~respPayload.success
        THEN /\ ReportThrows(c, "BAD_REQUEST", "Invalid response payload")
             /\ UNCHANGED repLocals
        ELSE IF ComputesUsage(reqPayload, respPayload)
        THEN /\ repPc' = [repPc EXCEPT ![c] = "lookup"]
             /\ repLocals' =
                  [repLocals EXCEPT ![c].lookups =
                     Append(@, Replace(reqPayload.data.model, Prefix))]
             /\ UNCHANGED repResult
        ELSE ParseTagsAndRecord(c, repInput[c], repLocals[c])
  /\ UNCHANGED <<repInput, repLog>>

\* await chatCompletionOutput.spa(input.respPayload) returns: when both
\* payloads validate the fineTune lookup is issued; otherwise usage stays
\* undefined, the tags are parsed and recordLoggedCall is called.
ReportRespValidated(c) ==
  /\ repPc[c] = "respValidating"
  /\ LET reqPayload == reqValidatorSpa(repInput[c].reqPayload)
         respPayload == chatCompletionOutputSpa(repInput[c].respPayload)
     IN IF ComputesUsage(reqPayload, respPayload)
        THEN /\ repPc' = [repPc EXCEPT ![c] = "lookup"]
             /\ repLocals' =
                  [repLocals EXCEPT ![c].lookups =
                     Append(@, Replace(reqPayload.data.model, Prefix))]
             /\ UNCHANGED repResult
        ELSE ParseTagsAndRecord(c, repInput[c], repLocals[c])
  /\ UNCHANGED <<repInput, repLog>>

\* The fineTune lookup of report returns: usage is computed with what it
\* found, then the tags are parsed and recordLoggedCall is called.
ReportLookupReturns(c) ==
  /\ repPc[c] = "lookup"
  /\ \E dbOk \in BOOLEAN :
       IF ~dbOk
       THEN /\ repResult' = [repResult EXCEPT ![c] = RawError("PrismaError")]
            /\ repPc' = [repPc EXCEPT ![c] = "done"]
            /\ UNCHANGED repLocals
       ELSE LET fineTune == FindUnique(repLocals[c].lookups[Len(repLocals[c].lookups)])
                usage == calculateUsage(reqValidatorSpa(repInput[c].reqPayload).data,
                                        chatCompletionOutputSpa(repInput[c].respPayload).data,
                                        fineTune)
            IN ParseTagsAndRecord(c, repInput[c],
                                  [repLocals[c] EXCEPT !.fineTune = fineTune,
                                                       !.usage = usage])
  /\ UNCHANGED <<repInput, repLog>>

\* report writing no second row for payloads already recorded.
ReportRecordSettlesUpsert(c) ==
  /\ repPc[c] = "recording"
  /\ \E ok \in BOOLEAN :
       IF ok
       THEN /\ repLog' = IF \E i \in 1..Len(repLog) :
                            SamePayload(repLog[i], ReportRow(c, repInput[c], repLocals[c]))
                         THEN repLog
                         ELSE recordLoggedCall(repLog,
                                               ReportRow(c, repInput[c], repLocals[c]))
            /\ repLocals' = [repLocals EXCEPT ![c].write = "done"]
            /\ repResult' = [repResult EXCEPT ![c] = [NoResult EXCEPT !.kind = "ok"]]
       ELSE /\ repLocals' = [repLocals EXCEPT ![c].write = "failed"]
            /\ repResult' = [repResult EXCEPT ![c] = 
                 ExtendedTRPCError("BAD_REQUEST", <<"Failed to create logged call">>)]
            /\ UNCHANGED repLog
  /\ repPc' = [repPc EXCEPT ![c] = "done"]
  /\ UNCHANGED repInput

\* The awaited recordLoggedCall settles: the row is in the table and the call
\* returns { status: "ok" }, or the rejection is caught and thrown again as
\* BAD_REQUEST.
ReportRecordSettles(c) ==
  /\ repPc[c] = "recording"
  /\ \E ok \in BOOLEAN :
       IF ok
       THEN /\ repLog' = recordLoggedCall(repLog, ReportRow(c, repInput[c], repLocals[c]))
            /\ repLocals' = [repLocals EXCEPT ![c].write = "done"]
            /\ repResult' = [repResult EXCEPT ![c] = [NoResult EXCEPT !.kind = "ok"]]
       ELSE /\ repLocals' = [repLocals EXCEPT ![c].write = "failed"]
            /\ repResult' = [repResult EXCEPT ![c] = 
                 ExtendedTRPCError("BAD_REQUEST", <<"Failed to create logged call">>)]
            /\ UNCHANGED repLog
  /\ repPc' = [repPc EXCEPT ![c] = "done"]
  /\ UNCHANGED repInput

ReportNext ==
  \E c \in ReportCalls :
    \/ ReportStart(c) /\ UNCHANGED otherThanReport
    \/ ReportReqValidated(c) /\ UNCHANGED otherThanReport
    \/ ReportRespValidated(c) /\ UNCHANGED otherThanReport
    \/ ReportLookupReturns(c) /\ UNCHANGED otherThanReport
    \/ ReportRecordSettles(c) /\ UNCHANGED otherThanReport

ReportSpec == Init /\ [][ReportNext]_vars

(***************************************************************************)
(* A streamed response: the split and its two consumers                    *)
(***************************************************************************)

\* recordUsage is given the provider's stream itself, not a branch of it.
StreamStartRecordsCompletion ==
  /\ stRecord = "idle"
  /\ \E cs \in ChunkSeqs : chunks' = cs
  /\ consumes' = [record |-> "completion", output |-> "outputStream"]
  /\ stRecord' = "reading"
  /\ stOutput' = "reading"
  /\ UNCHANGED <<pulled, qRecord, qOutput, seenRecord, seenOutput, streamUsage>>
  /\ UNCHANGED otherThanStream

\* const [recordStream, outputStream] = completion.tee(): recordUsage is
\* launched on recordStream and outputStream is returned to the caller.
StreamStart ==
  /\ stRecord = "idle"
  /\ \E cs \in ChunkSeqs : chunks' = cs
  /\ consumes' = [record |-> "recordStream", output |-> "outputStream"]
  /\ stRecord' = "reading"
  /\ stOutput' = "reading"
  /\ UNCHANGED <<pulled, qRecord, qOutput, seenRecord, seenOutput, streamUsage>>
  /\ UNCHANGED otherThanStream

\* recordUsage reads the next result of its stream; at the end of the stream it
\* records the usage of the chunks it has read.
RecorderReads ==
  /\ stRecord = "reading"
  /\ LET n == ReadNext(consumes.record, chunks, qRecord, qOutput, pulled)
     IN /\ qRecord' = n.qRecord
        /\ qOutput' = n.qOutput
        /\ pulled' = n.pulled
        /\ IF n.item.done
           THEN /\ stRecord' = "done"
                /\ streamUsage' = [set |-> TRUE, of |-> seenRecord]
                /\ UNCHANGED seenRecord
           ELSE /\ seenRecord' = Append(seenRecord, n.item.value)
                /\ UNCHANGED <<stRecord, streamUsage>>
  /\ UNCHANGED <<chunks, consumes, seenOutput, stOutput>>
  /\ UNCHANGED otherThanStream

\* recordUsage stalls for good or throws while reading.
RecorderStops ==
  /\ stRecord = "reading"
  /\ stRecord' = "stopped"
  /\ UNCHANGED <<chunks, pulled, consumes, qRecord, qOutput, seenRecord, seenOutput,
                 stOutput, streamUsage>>
  /\ UNCHANGED otherThanStream

\* The caller reads in step with recordUsage: it takes a new result only once
\* recordUsage has taken the previous one.
CallerReadsLockStep ==
  /\ stOutput = "reading"
  /\ qOutput # <<>> \/ qRecord = <<>>
  /\ LET n == ReadNext(consumes.output, chunks, qRecord, qOutput, pulled)
     IN /\ qRecord' = n.qRecord
        /\ qOutput' = n.qOutput
        /\ pulled' = n.pulled
        /\ IF n.item.done
           THEN stOutput' = "done" /\ UNCHANGED seenOutput
           ELSE seenOutput' = Append(seenOutput, n.item.value) /\ UNCHANGED stOutput
  /\ UNCHANGED <<chunks, consumes, seenRecord, stRecord, streamUsage>>
  /\ UNCHANGED otherThanStream

\* The transport reads the next result of the stream returned to the caller.
CallerReads ==
  /\ stOutput = "reading"
  /\ LET n == ReadNext(consumes.output, chunks, qRecord, qOutput, pulled)
     IN /\ qRecord' = n.qRecord
        /\ qOutput' = n.qOutput
        /\ pulled' = n.pulled
        /\ IF n.item.done
           THEN stOutput' = "done" /\ UNCHANGED seenOutput
           ELSE seenOutput' = Append(seenOutput, n.item.value) /\ UNCHANGED stOutput
  /\ UNCHANGED <<chunks, consumes, seenRecord, stRecord, streamUsage>>
  /\ UNCHANGED otherThanStream

\* The caller disconnects mid-stream: its stream is read no further.
CallerDisconnects ==
  /\ stOutput = "reading"
  /\ stOutput' = "stopped"
  /\ UNCHANGED <<chunks, pulled, consumes, qRecord, qOutput, seenRecord, seenOutput,
                 stRecord, streamUsage>>
  /\ UNCHANGED otherThanStream

StreamNext ==
  \/ StreamStart
  \/ RecorderReads
  \/ RecorderStops
  \/ CallerReads
  \/ CallerDisconnects

StreamSpec == Init /\ [][StreamNext]_vars

\* Each consumer is a task of its own on the event loop: a read it can make
\* is made.  Nothing obliges a consumer that has stopped to resume.
ConsumerFairness == WF_vars(RecorderReads) /\ WF_vars(CallerReads)

FairStreamSpec == StreamSpec /\ ConsumerFairness

(***************************************************************************)
(* The timestamps of createChatCompletion and report                       *)
(***************************************************************************)

\* Time passes.
Tick ==
  /\ now < MaxTime
  /\ now' = now + 1
  /\ UNCHANGED <<tsPc, ts>>
  /\ UNCHANGED otherThanTime

\* createChatCompletion: const requestedAt = Date.now().
ChatRequested(k) ==
  /\ tsPc[k] = "idle"
  /\ ts' = [ts EXCEPT ![k] = [op |-> "createChatCompletion", requestedAt |-> now,
                              receivedAt |-> Absent]]
  /\ tsPc' = [tsPc EXCEPT ![k] = "requested"]
  /\ UNCHANGED now
  /\ UNCHANGED otherThanTime

\* createChatCompletion launches recordUsage or recordLoggedCall with
\* requestedAt and receivedAt: Date.now().
ChatRecorded(k) ==
  /\ tsPc[k] = "requested"
  /\ ts[k].op = "createChatCompletion"
  /\ ts' = [ts EXCEPT ![k].receivedAt = now]
  /\ tsPc' = [tsPc EXCEPT ![k] = "recorded"]
  /\ UNCHANGED now
  /\ UNCHANGED otherThanTime

\* report: if (!input.requestedAt) input.requestedAt = Date.now(); the
\* handler then awaits the validation of the two payloads.
ReportRequested(k) ==
  /\ tsPc[k] = "idle"
  /\ \E requestedAt \in Times \cup {Absent}, receivedAt \in Times \cup {Absent} :
       ts' = [ts EXCEPT ![k] =
                [op |-> "report",
                 requestedAt |-> IF requestedAt = Absent THEN now ELSE requestedAt,
                 receivedAt |-> receivedAt]]
  /\ tsPc' = [tsPc EXCEPT ![k] = "requested"]
  /\ UNCHANGED now
  /\ UNCHANGED otherThanTime

\* report: the call of recordLoggedCall gets input.requestedAt and
\* input.receivedAt as they are; the clock is not read again.
ReportRecorded(k) ==
  /\ tsPc[k] = "requested"
  /\ ts[k].op = "report"
  /\ tsPc' = [tsPc EXCEPT ![k] = "recorded"]
  /\ UNCHANGED <<now, ts>>
  /\ UNCHANGED otherThanTime

TimeNext ==
  \/ Tick
  \/ \E k \in TimedCalls :
       \/ ChatRequested(k)
       \/ ChatRecorded(k)
       \/ ReportRequested(k)
       \/ ReportRecorded(k)

TimeSpec == Init /\ [][TimeNext]_vars

(***************************************************************************)
(* importDatasetEntries                                                    *)
(***************************************************************************)

\* updateDatasetFileUpload({ status, progress })
SetStatus(status, progress) ==
  /\ upload' = [upload EXCEPT !.status = status, !.progress = progress]
  /\ statusLog' = Append(statusLog, status)

\* updateDatasetFileUpload({ progress })
SetProgress(progress) ==
  /\ upload' = [upload EXCEPT !.progress = progress]
  /\ UNCHANGED statusLog

\* update({ errorMessage, status: "ERROR" })
SetError(message) ==
  /\ upload' = [upload EXCEPT !.status = "ERROR", !.errorMessage = message]
  /\ statusLog' = Append(statusLog, "ERROR")

\* A chunk one row short.
BatchOfShort(i, length) == [from |-> i, to |-> Min(i + BatchSize - 1, length)]

\* slice(i, i + 1000): the rows from index i up to, not including, to.
BatchOf(i, length) == [from |-> i, to |-> Min(i + BatchSize, length)]

\* The three batch loops, in program order, with the progress each starts
\* from and the span it covers.
Tables == <<"datasetEntryInput", "datasetEntryOutput", "nodeData">>

LoopBase == <<70, 80, 90>>

LoopSpan == <<10, 10, 5>>

TableIndex(table) == CHOOSE t \in 1..Len(Tables) : Tables[t] = table

\* The job is started and findUnique returns the upload, or null.
ImportStart ==
  /\ impPc = "idle"
  /\ \E input \in ImportInputs : impInput' = input
  /\ impPc' = "looked"
  /\ UNCHANGED <<impI, impLast, upload, statusLog, batches, enqueued>>
  /\ UNCHANGED otherThanImport

\* From the test of the upload to the first update: for a missing upload the
\* update of status ERROR finds no row and rejects, and the job ends there;
\* otherwise status DOWNLOADING, progress 5, and the download starts.
ImportBegin ==
  /\ impPc = "looked"
  /\ IF ~impInput.exists
     THEN impPc' = "failed" /\ UNCHANGED <<upload, statusLog>>
     ELSE impPc' = "downloading" /\ SetStatus("DOWNLOADING", 5)
  /\ UNCHANGED <<impInput, impI, impLast, batches, enqueued>>
  /\ UNCHANGED otherThanImport

\* onBlobDownloadProgress(progress): the download reports more bytes than it
\* last did, at most fileSize.
DownloadProgress ==
  /\ impPc = "downloading"
  /\ \E progress \in (impLast + 1)..impInput.fileSize :
       /\ impLast' = progress
       /\ SetProgress(DownloadProgressValue(progress, impInput.fileSize))
  /\ UNCHANGED <<impPc, impInput, impI, batches, enqueued>>
  /\ UNCHANGED otherThanImport

\* status PROCESSING, progress 60, then prepareDatasetEntriesForImport, up to
\* the next update.
SetProcessing ==
  /\ SetStatus("PROCESSING", 60)
  /\ impPc' = IF impInput.prepareOk THEN "prepared" ELSE "prepareThrew"

\* downloadBlobToStrings returns and the rows are parsed: when there is no
\* good row or more error rows than good rows, status ERROR is written and the
\* job goes on; otherwise the job is at the PROCESSING update.
DownloadReturns ==
  /\ impPc = "downloading"
  /\ IF RowsRejected(impInput)
     THEN SetError("Invalid JSONL") /\ impPc' = "rowsChecked"
     ELSE SetProcessing
  /\ UNCHANGED <<impInput, impI, impLast, batches, enqueued>>
  /\ UNCHANGED otherThanImport

\* The PROCESSING update after the ERROR update of the rows.
ProcessingAfterError ==
  /\ impPc = "rowsChecked"
  /\ SetProcessing
  /\ UNCHANGED <<impInput, impI, impLast, batches, enqueued>>
  /\ UNCHANGED otherThanImport

\* catch of prepareDatasetEntriesForImport: status ERROR, visible, return.
PrepareFailed ==
  /\ impPc = "prepareThrew"
  /\ upload' = [upload EXCEPT !.status = "ERROR", !.errorMessage = "Error preparing rows",
                              !.visible = TRUE]
  /\ statusLog' = Append(statusLog, "ERROR")
  /\ impPc' = "returned"
  /\ UNCHANGED <<impInput, impI, impLast, batches, enqueued>>
  /\ UNCHANGED otherThanImport

\* status SAVING, progress 70; a loop over no rows is not entered.
SetSaving ==
  /\ impPc = "prepared"
  /\ SetStatus("SAVING", 70)
  /\ impPc' = IF PreparedRows(impInput) = 0 THEN "p95" ELSE Tables[1]
  /\ UNCHANGED <<impInput, impI, impLast, batches, enqueued>>
  /\ UNCHANGED otherThanImport

\* The position of each loop between its createMany and its progress update.
LoopUpdating == <<"datasetEntryInputSaved", "datasetEntryOutputSaved", "nodeDataSaved">>

\* await createMany({ data: chunk, skipDuplicates: true }) of the chunk at i.
SaveBatch ==
  /\ \E t \in 1..Len(Tables) :
       /\ impPc = Tables[t]
       /\ LET chunk == BatchOf(impI, PreparedRows(impInput))
          IN batches' =
               Append(batches, [table |-> Tables[t], from |-> chunk.from,
                                to |-> chunk.to])
       /\ impPc' = LoopUpdating[t]
  /\ UNCHANGED <<impInput, impI, impLast, upload, statusLog, enqueued>>
  /\ UNCHANGED otherThanImport

\* await updateDatasetFileUpload({ progress }) of the turn, then i += 1000 and
\* the loop test.
BatchProgress ==
  /\ \E t \in 1..Len(Tables) :
       /\ impPc = LoopUpdating[t]
       /\ LET length == PreparedRows(impInput)
          IN /\ SetProgress(BatchProgressValue(LoopBase[t], LoopSpan[t], impI, length))
             /\ IF impI + BatchSize < length
                THEN impI' = impI + BatchSize /\ impPc' = Tables[t]
                ELSE /\ impI' = 0
                     /\ impPc' = IF t < Len(Tables) THEN Tables[t + 1] ELSE "p95"
  /\ UNCHANGED <<impInput, impLast, batches, enqueued>>
  /\ UNCHANGED otherThanImport

\* updateDatasetFileUpload({ progress: 95 })
Progress95 ==
  /\ impPc = "p95"
  /\ SetProgress(95)
  /\ impPc' = "p99"
  /\ UNCHANGED <<impInput, impI, impLast, batches, enqueued>>
  /\ UNCHANGED otherThanImport

\* updateDatasetFileUpload({ progress: 99 })
Progress99 ==
  /\ impPc = "p99"
  /\ SetProgress(99)
  /\ impPc' = "enqueue"
  /\ UNCHANGED <<impInput, impI, impLast, batches, enqueued>>
  /\ UNCHANGED otherThanImport

\* countDatasetEntryTokens.enqueue()
EnqueueCount ==
  /\ impPc = "enqueue"
  /\ enqueued' = enqueued + 1
  /\ impPc' = "complete"
  /\ UNCHANGED <<impInput, impI, impLast, upload, statusLog, batches>>
  /\ UNCHANGED otherThanImport

\* status COMPLETE, progress 100, visible.
SetComplete ==
  /\ impPc = "complete"
  /\ upload' = [upload EXCEPT !.status = "COMPLETE", !.progress = 100, !.visible = TRUE]
  /\ statusLog' = Append(statusLog, "COMPLETE")
  /\ impPc' = "returned"
  /\ UNCHANGED <<impInput, impI, impLast, batches, enqueued>>
  /\ UNCHANGED otherThanImport

ImportNext ==
  \/ ImportStart
  \/ ImportBegin
  \/ DownloadProgress
  \/ DownloadReturns
  \/ ProcessingAfterError
  \/ PrepareFailed
  \/ SetSaving
  \/ SaveBatch
  \/ BatchProgress
  \/ Progress95
  \/ Progress99
  \/ EnqueueCount
  \/ SetComplete

ImportSpec == Init /\ [][ImportNext]_vars

(***************************************************************************)
(* authorize of the credentials provider                                   *)
(***************************************************************************)

\* prisma.user.findUnique({ where: { email } }): the id of the user, or none.
userFindUnique(email) ==
  IF \E u \in users : u.email = email
  THEN (CHOOSE u \in users : u.email = email).id
  ELSE NoUser

\* From the entry of authorize to the findUnique: no email is an error.
AuthStart(a) ==
  /\ authPc[a] = "idle"
  /\ \E email \in Emails \cup {NoEmail} :
       IF email = NoEmail
       THEN /\ authCall' = [authCall EXCEPT ![a].result = "error"]
            /\ authPc' = [authPc EXCEPT ![a] = "done"]
       ELSE /\ authCall' = [authCall EXCEPT ![a].email = email]
            /\ authPc' = [authPc EXCEPT ![a] = "find"]
  /\ UNCHANGED <<users, accounts>>
  /\ UNCHANGED otherThanAuth

\* prisma.user.findUnique settles: a rejection is rethrown by the catch; a
\* user found is returned; otherwise user.create is called.
AuthFindReturns(a) ==
  /\ authPc[a] = "find"
  /\ \E dbOk \in BOOLEAN :
       LET user == userFindUnique(authCall[a].email)
       IN IF ~dbOk
          THEN /\ authCall' = [authCall EXCEPT ![a].result = "error"]
               /\ authPc' = [authPc EXCEPT ![a] = "done"]
          ELSE IF user # NoUser
          THEN /\ authCall' = [authCall EXCEPT ![a].user = user, ![a].result = "ok"]
               /\ authPc' = [authPc EXCEPT ![a] = "done"]
          ELSE /\ authCall' = [authCall EXCEPT ![a].user = user]
               /\ authPc' = [authPc EXCEPT ![a] = "createUser"]
  /\ UNCHANGED <<users, accounts>>
  /\ UNCHANGED otherThanAuth

\* prisma.user.create({ data: { email } }) settles: the email is unique in the
\* table, so the create of an email that is there rejects, as does any create
\* the database fails, and authorize throws; otherwise the user is there and
\* account.create is called.
AuthUserCreateSettles(a) ==
  /\ authPc[a] = "createUser"
  /\ \E dbOk \in BOOLEAN :
       IF ~dbOk \/ \E u \in users : u.email = authCall[a].email
       THEN /\ authCall' = [authCall EXCEPT ![a].result = "error"]
            /\ authPc' = [authPc EXCEPT ![a] = "done"]
            /\ UNCHANGED users
       ELSE /\ users' = users \cup {[id |-> Cardinality(users) + 1,
                                     email |-> authCall[a].email]}
            /\ authCall' = [authCall EXCEPT ![a].user = Cardinality(users) + 1,
                                            ![a].createdUser = TRUE]
            /\ authPc' = [authPc EXCEPT ![a] = "createAccount"]
  /\ UNCHANGED accounts
  /\ UNCHANGED otherThanAuth

\* prisma.account.create settles: authorize returns the user, or, when the
\* create is rejected, rethrows; the user created before it stays, the two
\* creates being separate writes with no transaction around them.
AuthAccountCreateSettles(a) ==
  /\ authPc[a] = "createAccount"
  /\ \E dbOk \in BOOLEAN :
       IF dbOk
       THEN /\ accounts' = accounts \cup
                 {[id |-> Cardinality(accounts) + 1, userId |-> authCall[a].user,
                   provider |-> "credentials", type |-> "credentials",
                   providerAccountId |-> authCall[a].user]}
            /\ authCall' = [authCall EXCEPT ![a].createdAccount = TRUE,
                                            ![a].result = "ok"]
       ELSE /\ authCall' = [authCall EXCEPT ![a].result = "error"]
            /\ UNCHANGED accounts
  /\ authPc' = [authPc EXCEPT ![a] = "done"]
  /\ UNCHANGED users
  /\ UNCHANGED otherThanAuth

AuthNext ==
  \E a \in AuthCalls :
    \/ AuthStart(a)
    \/ AuthFindReturns(a)
    \/ AuthUserCreateSettles(a)
    \/ AuthAccountCreateSettles(a)

AuthSpec == Init /\ [][AuthNext]_vars

(***************************************************************************)
(* One createChatCompletion request and one report call side by side       *)
(***************************************************************************)

GatewayNext ==
  \/ Start(1) /\ UNCHANGED otherThanRouter
  \/ LookupReturns(1) /\ UNCHANGED otherThanRouter
  \/ FineTuneReturns(1) /\ UNCHANGED otherThanRouter
  \/ OpenaiReturns(1) /\ UNCHANGED otherThanRouter
  \/ RecordUsageSettles(1) /\ UNCHANGED otherThanRouter
  \/ RecordLoggedCallSettles(1) /\ UNCHANGED otherThanRouter
  \/ ReportStart(1) /\ UNCHANGED otherThanReport
  \/ ReportReqValidated(1) /\ UNCHANGED otherThanReport
  \/ ReportRespValidated(1) /\ UNCHANGED otherThanReport
  \/ ReportLookupReturns(1) /\ UNCHANGED otherThanReport
  \/ ReportRecordSettles(1) /\ UNCHANGED otherThanReport

GatewaySpec == Init /\ [][GatewayNext]_vars

(***************************************************************************)
(* Vocabulary of the properties                                            *)
(***************************************************************************)

\* The request has been answered and its recording task, if any, has settled.
Settled(r) == pc[r] = "done" /\ task[r].state # "pending"

TagsOk(r) == ParseTagsHeader(locals[r].tagsHeader).ok

\* A custom model whose record exists and belongs to another project.
OwnedByOther(model) ==
  /\ IsFineTune(model)
  /\ FindUnique(Replace(model, Prefix)) # NoFineTune
  /\ FindUnique(Replace(model, Prefix)).projectId # KeyProject

\* A custom model with no record.
Missing(model) ==
  IsFineTune(model) /\ FindUnique(Replace(model, Prefix)) = NoFineTune

Delivered(r) == result[r].kind \in {"completion", "stream"}

NullPayload == [kind |-> "none", code |-> "", message |-> NoMessage]

\* The rows of request r once its recording task has written, none before.
RowsOfTask(r) == IF task[r].state = "done" THEN <<task[r].row>> ELSE <<>>

(***************************************************************************)
(* C1                                                                      *)
(***************************************************************************)

\* C1 as stated: once a request and its recording task have settled, exactly
\* one Logged Call has been written for it, whatever its outcome.
C1_ExactlyOneLoggedCall ==
  \A r \in Reqs : Settled(r) => Len(loggedCalls[r]) = 1

(***************************************************************************)
(* C2                                                                      *)
(***************************************************************************)

\* C2: a request for a custom model that ends in NOT_FOUND or FORBIDDEN has
\* made no provider call (neither getCompletion2 nor getOpenaiCompletion).
C2_ChecksBeforeProviderCall ==
  \A r \in Reqs :
    (/\ locals[r].isFineTune
     /\ result[r].kind = "error"
     /\ result[r].code \in {"NOT_FOUND", "FORBIDDEN"})
    => /\ providerCalls[r] = <<>>
       /\ providerResult[r] = NoOutcome

\* One request rejected with NOT_FOUND and one with FORBIDDEN, both custom.
C2_Witness ==
  \E r1, r2 \in Reqs :
    /\ locals[r1].isFineTune /\ result[r1].code = "NOT_FOUND"
    /\ locals[r2].isFineTune /\ result[r2].code = "FORBIDDEN"

(***************************************************************************)
(* C3                                                                      *)
(***************************************************************************)

\* C3 as stated, in the case most favourable to it (the lookup is answered and
\* the failed-call write succeeds): every request for a custom model of
\* another project fails with Forbidden (403) and is logged as a failed call
\* with unset usage.
C3_OtherProjectAlwaysForbidden ==
  \A r \in Reqs :
    (/\ locals[r].parsed /\ OwnedByOther(locals[r].model)
     /\ pc[r] = "done" /\ result[r].kind # "raw" /\ task[r].state = "done")
    => /\ result[r].kind = "error"
       /\ result[r].code = "FORBIDDEN"
       /\ result[r].status = 403
       /\ Len(loggedCalls[r]) = 1
       /\ loggedCalls[r][1].statusCode = 403
       /\ loggedCalls[r][1].usage = "unset"

\* C3 amended: a request for a custom model of another project whose op-tags
\* header is absent or well-formed fails with Forbidden (403) unless the
\* lookup itself is rejected; the failed-call record (statusCode 403, usage
\* unset) is launched and not awaited, and it is the one Logged Call of the
\* request once its write succeeds.  With a malformed op-tags header the
\* request fails with BadRequest (400) before any lookup.
C3_OtherProjectForbidden ==
  \A r \in Reqs :
    (locals[r].parsed /\ OwnedByOther(locals[r].model) /\ pc[r] = "done")
    => IF TagsOk(r)
       THEN \/ result[r] = RawError("PrismaError")
            \/ /\ result[r].kind = "error"
               /\ result[r].code = "FORBIDDEN"
               /\ result[r].status = 403
               /\ task[r].fn = "recordLoggedCall"
               /\ task[r].row.statusCode = 403
               /\ task[r].row.usage = "unset"
               /\ loggedCalls[r] = RowsOfTask(r)
       ELSE /\ result[r].kind = "error"
            /\ result[r].code = "BAD_REQUEST"
            /\ result[r].status = 400
            /\ lookups[r] = 0

\* A request for another project's model was refused and its failed call written.
C3_Witness ==
  \E r \in Reqs :
    /\ OwnedByOther(locals[r].model)
    /\ result[r].code = "FORBIDDEN"
    /\ Len(loggedCalls[r]) = 1
    /\ loggedCalls[r][1].statusCode = 403
    /\ loggedCalls[r][1].usage = "unset"

(***************************************************************************)
(* C4                                                                      *)
(***************************************************************************)

\* C4 as stated, in the case most favourable to it (well-formed tags, the
\* lookup is answered and the failed-call write succeeds): a request for a
\* custom model with no record gets NotFound and one Logged Call with
\* statusCode 404 and a null respPayload.
C4_MissingModelNullPayload ==
  \A r \in Reqs :
    (locals[r].parsed /\ Missing(locals[r].model) /\ TagsOk(r) /\ Settled(r)
     /\ result[r].kind = "error" /\ task[r].state = "done")
    => /\ result[r].code = "NOT_FOUND"
       /\ Len(loggedCalls[r]) = 1
       /\ loggedCalls[r][1].statusCode = 404
       /\ loggedCalls[r][1].respPayload = NullPayload

(***************************************************************************)
(* C5                                                                      *)
(***************************************************************************)

\* C5 as stated: when the caller has the translated error, the failed Logged
\* Call has been recorded and agrees with it.
C5_RecordedBeforeReturned ==
  \A r \in Reqs :
    result[r].kind = "error"
    => /\ Len(loggedCalls[r]) = 1
       /\ loggedCalls[r][1].statusCode = result[r].status
       /\ loggedCalls[r][1].errorMessage = result[r].message

\* C5 amended: for every translated error the failed-call write is launched
\* (exactly once, not awaited) before the error is thrown to the caller, with
\* statusCode the status code of the error's code and errorMessage the
\* error's message; the Logged Call exists once that write succeeds and is
\* exactly that record, and no other row is written for the request.
C5_FailedCallAgreesWithError ==
  \A r \in Reqs :
    result[r].kind = "error"
    => /\ task[r].fn = "recordLoggedCall"
       /\ launches[r] = 1
       /\ task[r].row.statusCode = statusCodeFromTrpcCode(result[r].code)
       /\ task[r].row.statusCode = result[r].status
       /\ task[r].row.errorMessage = result[r].message
       /\ task[r].row.respPayload.code = result[r].code
       /\ loggedCalls[r] = RowsOfTask(r)

\* The caller has a translated error and the matching row has been written.
C5_Witness ==
  \E r \in Reqs :
    /\ result[r].kind = "error"
    /\ Len(loggedCalls[r]) = 1
    /\ loggedCalls[r][1].errorMessage = result[r].message

(***************************************************************************)
(* C7                                                                      *)
(***************************************************************************)

\* C7: when the upstream provider reports an API error with status s, the
\* error returned to the caller and the failed-call record both carry s and
\* the provider's message.
C7_StatusPassedThrough ==
  \A r \in Reqs :
    (providerCalls[r] = <<"getOpenaiCompletion">>
     /\ providerResult[r].type = "apiError")
    => /\ result[r].kind = "error"
       /\ result[r].message = providerResult[r].message
       /\ result[r].status = providerResult[r].status
       /\ task[r].row.statusCode = providerResult[r].status

(***************************************************************************)
(* C8                                                                      *)
(***************************************************************************)

\* C8: a failure of the custom model provider (of any kind), and a failure of
\* the upstream call that is not an APIError, reach the caller as BAD_REQUEST
\* with status 400.
C8_OtherDispatchFailureIsBadRequest ==
  \A r \in Reqs :
    (\/ /\ providerCalls[r] = <<"getCompletion2">>
        /\ providerResult[r].type \in {"apiError", "otherError"}
     \/ /\ providerCalls[r] = <<"getOpenaiCompletion">>
        /\ providerResult[r].type = "otherError")
    => /\ pc[r] = "done"
       /\ result[r].kind = "error"
       /\ result[r].code = "BAD_REQUEST"
       /\ result[r].status = 400

\* A custom-model failure and a non-API upstream failure, both answered 400.
C8_Witness ==
  \E r1, r2 \in Reqs :
    /\ providerCalls[r1] = <<"getCompletion2">>
    /\ providerResult[r1].type = "apiError"
    /\ result[r1].status = 400
    /\ providerCalls[r2] = <<"getOpenaiCompletion">>
    /\ providerResult[r2].type = "otherError"
    /\ result[r2].status = 400

(***************************************************************************)
(* C9                                                                      *)
(***************************************************************************)

\* C9: each request makes at most one provider call, to the custom model
\* provider if and only if its model starts with the prefix; a model without
\* the prefix causes no custom-model lookup; a failed call is not followed by
\* another call.
C9_OneProviderCallByPrefix ==
  \A r \in Reqs :
    /\ Len(providerCalls[r]) <= 1
    /\ lookups[r] <= 1
    /\ \A i \in 1..Len(providerCalls[r]) :
         providerCalls[r][i] =
           IF IsFineTune(locals[r].model) THEN "getCompletion2"
           ELSE "getOpenaiCompletion"
    /\ (locals[r].parsed /\ ~IsFineTune(locals[r].model)) => lookups[r] = 0
    /\ ~locals[r].parsed => (providerCalls[r] = <<>> /\ lookups[r] = 0)

\* A custom-model call failed and an upstream call failed; each request is
\* answered and has made just that one call.
C9_Witness ==
  \E r1, r2 \in Reqs :
    /\ pc[r1] = "done" /\ providerCalls[r1] = <<"getCompletion2">>
    /\ providerResult[r1].type = "otherError"
    /\ pc[r2] = "done" /\ providerCalls[r2] = <<"getOpenaiCompletion">>
    /\ locals[r2].model = <<"mine">>
    /\ providerResult[r2].type = "apiError" /\ lookups[r2] = 0

(***************************************************************************)
(* C10                                                                     *)
(***************************************************************************)

\* C10: a request that has been taken up is eventually answered (completion,
\* stream or error), in every execution in which the awaited calls settle,
\* whether or not the recording task ever settles.
C10_HandlerCompletes ==
  \A r \in Reqs : (pc[r] # "idle") ~> (pc[r] = "done" /\ result[r].kind # "none")

\* The caller has the provider's response, or the translated error, while the
\* recording task is still pending.
C10_Witness ==
  \E r1, r2 \in Reqs :
    /\ Delivered(r1) /\ task[r1].fn = "recordUsage" /\ task[r1].state = "pending"
    /\ result[r2].kind = "error" /\ task[r2].fn = "recordLoggedCall"
    /\ task[r2].state = "pending"

(***************************************************************************)
(* C13                                                                     *)
(***************************************************************************)

\* C13: when the usage recording launched after a successful dispatch rejects,
\* the rejection has been passed to captureException exactly once, nothing is
\* left unhandled, and the caller holds exactly what the provider produced:
\* the completion, or the output stream.
C13_RecordUsageFailureCaptured ==
  \A r \in Reqs :
    (task[r].fn = "recordUsage" /\ task[r].state = "failed") =>
      /\ captured[r] = 1
      /\ unhandled[r] = 0
      /\ result[r] =
           [NoResult EXCEPT
              !.kind = IF providerResult[r].kind = "stream" THEN "stream"
                       ELSE "completion"]

\* A streamed dispatch succeeded, its usage recording rejected, and the caller
\* holds the output stream.
C13_Witness ==
  \E r \in Reqs :
    /\ task[r].fn = "recordUsage"
    /\ task[r].state = "failed"
    /\ providerResult[r].type = "ok"
    /\ providerResult[r].kind = "stream"
    /\ result[r].kind = "stream"
    /\ captured[r] = 1

(***************************************************************************)
(* C14                                                                     *)
(***************************************************************************)

\* C14 as stated: when the failed-call write launched by the catch block
\* rejects, the rejection has been passed to captureException, nothing is left
\* unhandled, and the caller holds the translated error.
C14_FailedWriteFailureCaptured ==
  \A r \in Reqs :
    (task[r].fn = "recordLoggedCall" /\ task[r].state = "failed") =>
      /\ captured[r] = 1
      /\ unhandled[r] = 0
      /\ result[r].kind = "error"

(***************************************************************************)
(* Vocabulary of the properties of report                                  *)
(***************************************************************************)

\* The positions in the table of the rows written by report call c.
RowsOfCall(c) == {i \in 1..Len(repLog) : repLog[i].call = c}

ReqValid(c) == reqValidatorSpa(repInput[c].reqPayload).success

RespValid(c) == chatCompletionOutputSpa(repInput[c].respPayload).success

(***************************************************************************)
(* C15                                                                     *)
(***************************************************************************)

\* C15 as stated: when the Logged Call write of a report call failed, the
\* caller's result is not an error.
C15_WriteFailureNotReRaised ==
  \A c \in ReportCalls :
    repLocals[c].write = "failed" => repResult[c].kind # "error"

(***************************************************************************)
(* C16                                                                     *)
(***************************************************************************)

\* C16: a report call made with a read-only key has failed with FORBIDDEN
\* (403) as soon as it is taken up, having looked up no fineTune, computed no
\* usage, called no write and written no row.
C16_ReadOnlyReportHasNoEffect ==
  \A c \in ReportCalls :
    (repPc[c] # "idle" /\ repInput[c].readOnly) =>
      /\ repPc[c] = "done"
      /\ repResult[c] =
           ExtendedTRPCError("FORBIDDEN",
                             <<"Read-only API keys cannot report API calls">>)
      /\ repLocals[c] = NoReportLocals
      /\ RowsOfCall(c) = {}

\* A read-only report call carrying valid payloads for a custom model that
\* exists has been rejected while another call did write.
C16_Witness ==
  \E c \in ReportCalls :
    /\ repInput[c].readOnly
    /\ repInput[c].reqPayload = [valid |-> TRUE, model |-> <<Prefix, "mine">>]
    /\ RespValid(c)
    /\ repResult[c].code = "FORBIDDEN"
    /\ Len(repLog) = 1

(***************************************************************************)
(* C17                                                                     *)
(***************************************************************************)

\* C17: under any interleaving of report calls, the table holds exactly one
\* row per call that returned "ok" and none for any other call, and no two
\* rows share an id, identical payloads or not.
C17_ReportIsAdditive ==
  /\ Len(repLog) = Cardinality({c \in ReportCalls : repResult[c].kind = "ok"})
  /\ \A c \in ReportCalls :
       Cardinality(RowsOfCall(c)) = IF repResult[c].kind = "ok" THEN 1 ELSE 0
  /\ \A i, j \in 1..Len(repLog) : i # j => repLog[i].id # repLog[j].id

\* Two report calls with identical inputs have both returned "ok": two rows
\* with the same payloads and different ids.
C17_Witness ==
  /\ repInput[1] = repInput[2]
  /\ repResult[1].kind = "ok"
  /\ repResult[2].kind = "ok"
  /\ Len(repLog) = 2
  /\ SamePayload(repLog[1], repLog[2])
  /\ repLog[1].id # repLog[2].id

(***************************************************************************)
(* C18                                                                     *)
(***************************************************************************)

\* C18: a finished report call whose respPayload was absent or empty has made
\* no fineTune lookup and, unless the key was read-only, the tags were
\* rejected or the write failed, it has returned "ok" and written exactly one
\* row, whose usage is unset; in those three cases it has written none.
C18_AbsentResponseIsNotAnError ==
  \A c \in ReportCalls :
    (repPc[c] = "done" /\ repInput[c].respPayload \in {"absent", "empty"}) =>
      /\ repLocals[c].lookups = <<>>
      /\ IF \/ repInput[c].readOnly
            \/ ~parseTags(repInput[c].tags).ok
            \/ repLocals[c].write = "failed"
         THEN repResult[c].kind = "error" /\ RowsOfCall(c) = {}
         ELSE /\ repResult[c] = [NoResult EXCEPT !.kind = "ok"]
              /\ Cardinality(RowsOfCall(c)) = 1
              /\ \A i \in RowsOfCall(c) : repLog[i].usage = NoUsage

\* A report call with a valid request payload and no respPayload has returned
\* "ok" and its row has usage unset.
C18_Witness ==
  \E c \in ReportCalls :
    /\ repInput[c].respPayload = "absent"
    /\ ReqValid(c)
    /\ repResult[c].kind = "ok"
    /\ \E i \in RowsOfCall(c) : ~repLog[i].usage.set

(***************************************************************************)
(* C19                                                                     *)
(***************************************************************************)

\* C19 as stated: every row written by report for a valid response payload has
\* usage set.
C19_UsageSetForValidResponse ==
  \A i \in 1..Len(repLog) :
    chatCompletionOutputSpa(repLog[i].respPayload).success => repLog[i].usage.set

\* C19 amended: a row written by report has usage set if and only if both the
\* request payload and the response payload validate, and the usage is then
\* the one computed in the handler from that pair.
C19_UsageSetForValidPair ==
  \A i \in 1..Len(repLog) :
    LET reqPayload == reqValidatorSpa(repLog[i].reqPayload)
        respPayload == chatCompletionOutputSpa(repLog[i].respPayload)
    IN /\ repLog[i].usage.set <=> (reqPayload.success /\ respPayload.success)
       /\ repLog[i].usage.set =>
            \E ft \in FineTunes \cup {NoFineTune} :
              repLog[i].usage = calculateUsage(reqPayload.data, respPayload.data, ft)

\* A row written for a valid request and a valid response: usage is set.
C19_Witness ==
  \E i \in 1..Len(repLog) :
    /\ reqValidatorSpa(repLog[i].reqPayload).success
    /\ chatCompletionOutputSpa(repLog[i].respPayload).success
    /\ repLog[i].usage.set
    /\ repLog[i].usage.model = repLog[i].reqPayload.model

(***************************************************************************)
(* C20                                                                     *)
(***************************************************************************)

\* C20 as stated, in the part most favourable to the code (the lookup itself
\* left aside): for a model identifier that does not carry the prefix, no
\* fineTune record is found by report and none is used to compute usage.
C20_OnlyPrefixedModelIsCustom ==
  \A c \in ReportCalls :
    ~IsFineTune(repInput[c].reqPayload.model) =>
      /\ repLocals[c].fineTune = NoFineTune
      /\ repLocals[c].usage.fineTune = <<>>

(***************************************************************************)
(* C11                                                                     *)
(***************************************************************************)

\* s is an initial stretch of t.
IsPrefix(s, t) == Len(s) <= Len(t) /\ \A i \in 1..Len(s) : s[i] = t[i]

\* C11: at every moment what each consumer of a streamed response has read is
\* an initial stretch of the provider's stream, so no chunk is skipped,
\* repeated or reordered on either branch; a consumer that has reached the end
\* of its branch has read the whole stream, so two consumers that both did
\* have read identical sequences.
C11_BranchesObserveEveryChunk ==
  /\ IsPrefix(seenRecord, chunks)
  /\ IsPrefix(seenOutput, chunks)
  /\ stRecord = "done" => seenRecord = chunks
  /\ stOutput = "done" => seenOutput = chunks
  /\ (stRecord = "done" /\ stOutput = "done") => seenRecord = seenOutput

\* A stream of MaxChunks chunks, not all alike, has been read to its end on
\* both branches.
C11_Witness ==
  /\ Len(chunks) = MaxChunks
  /\ \E i, j \in 1..Len(chunks) : chunks[i] # chunks[j]
  /\ stRecord = "done"
  /\ stOutput = "done"
  /\ seenRecord = chunks
  /\ seenOutput = chunks

(***************************************************************************)
(* C12                                                                     *)
(***************************************************************************)

\* C12: whatever the other consumer does, a consumer that is reading and does
\* not itself stop gets to the end of its branch: recordUsage, even when the
\* caller has disconnected, reads the whole stream and records its usage; the
\* caller, even when recordUsage has stalled or crashed, reads the whole
\* stream.
C12_BranchesDecoupled ==
  /\ (stRecord = "reading") ~>
       \/ stRecord = "stopped"
       \/ stRecord = "done" /\ streamUsage = [set |-> TRUE, of |-> chunks]
  /\ (stOutput = "reading") ~>
       \/ stOutput = "stopped"
       \/ stOutput = "done" /\ seenOutput = chunks

\* The caller disconnected before the end of the stream and recordUsage has
\* read all of it and recorded its usage.
C12_Witness ==
  /\ stOutput = "stopped"
  /\ Len(seenOutput) < Len(chunks)
  /\ stRecord = "done"
  /\ streamUsage = [set |-> TRUE, of |-> chunks]

(***************************************************************************)
(* C22                                                                     *)
(***************************************************************************)

\* C22 as stated: a createChatCompletion request whose op-tags header does not
\* parse has ended in BAD_REQUEST (400) with no fineTune lookup and no provider
\* call made, and a report call whose tags are rejected has ended in
\* BAD_REQUEST (400).
C22_MalformedTagsAlwaysBadRequest ==
  /\ \A r \in Reqs :
       ~TagsOk(r) =>
         /\ pc[r] = "done"
         /\ result[r].kind = "error"
         /\ result[r].code = "BAD_REQUEST"
         /\ result[r].status = 400
         /\ lookups[r] = 0
         /\ providerCalls[r] = <<>>
  /\ \A c \in ReportCalls :
       (repPc[c] = "done" /\ ~parseTags(repInput[c].tags).ok) =>
         /\ repResult[c].kind = "error"
         /\ repResult[c].code = "BAD_REQUEST"
         /\ repResult[c].status = 400

\* C22 amended: a createChatCompletion request whose payload parsed and whose
\* op-tags header does not parse has ended, as soon as it is taken up, in
\* BAD_REQUEST (400) "Failed to parse tags", with no fineTune lookup and no
\* provider call made; a report call whose tags are rejected never returns
\* "ok" nor writes a row: with a read-only key it has ended in FORBIDDEN (403),
\* with a writable key in BAD_REQUEST (400) "Failed to parse tags", unless the
\* fineTune lookup that report makes before it parses the tags was rejected,
\* and then that error is what the call threw.
C22_MalformedTagsAreBadRequest ==
  /\ \A r \in Reqs :
       (locals[r].parsed /\ ~TagsOk(r)) =>
         /\ pc[r] = "done"
         /\ result[r] =
              ExtendedTRPCError("BAD_REQUEST",
                                <<"Failed to parse tags: ",
                                  ParseTagsHeader(locals[r].tagsHeader).error>>)
         /\ lookups[r] = 0
         /\ providerCalls[r] = <<>>
  /\ \A c \in ReportCalls :
       (repPc[c] = "done" /\ ~parseTags(repInput[c].tags).ok) =>
         /\ RowsOfCall(c) = {}
         /\ repLocals[c].write = "none"
         /\ repResult[c] =
              IF repInput[c].readOnly
              THEN ExtendedTRPCError("FORBIDDEN",
                                     <<"Read-only API keys cannot report API calls">>)
              ELSE IF repResult[c].kind = "raw"
              THEN RawError("PrismaError")
              ELSE ExtendedTRPCError("BAD_REQUEST", <<"Failed to parse tags">>)
         /\ repResult[c].kind = "raw" => repLocals[c].lookups # <<>>

\* A request for a custom model with an op-tags header that is not JSON and a
\* report call with rejected tags have both ended in a 400.
C22_Witness ==
  /\ locals[1].tagsHeader = "badjson"
  /\ locals[1].isFineTune
  /\ result[1].status = 400
  /\ lookups[1] = 0
  /\ repInput[1].tags = "rejected"
  /\ repResult[1].status = 400

(***************************************************************************)
(* C23                                                                     *)
(***************************************************************************)

\* C23: each request has launched at most one recording task, and it has
\* launched one exactly when it holds a task: recordUsage only for a request
\* answered with a completion or a stream, recordLoggedCall only for a request
\* answered with a translated error.
C23_AtMostOneRecordingTask ==
  \A r \in Reqs :
    /\ launches[r] = IF task[r].fn = "none" THEN 0 ELSE 1
    /\ task[r].fn = "recordUsage" => Delivered(r)
    /\ task[r].fn = "recordLoggedCall" => result[r].kind = "error"

\* One request launched recordUsage, the other recordLoggedCall, once each.
C23_Witness ==
  /\ task[1].fn = "recordUsage"
  /\ task[2].fn = "recordLoggedCall"
  /\ launches[1] = 1
  /\ launches[2] = 1

(***************************************************************************)
(* C24                                                                     *)
(***************************************************************************)

\* C24 as stated: a request whose payload parsed and whose logRequest is false
\* has no Logged Call, whatever its outcome.
C24_NoLoggedCallWhenLoggingDisabled ==
  \A r \in Reqs :
    (locals[r].parsed /\ ~locals[r].logRequest) => loggedCalls[r] = <<>>

(***************************************************************************)
(* C21                                                                     *)
(***************************************************************************)

\* C21 as stated: every call recorded with both timestamps has its requestedAt
\* not later than its receivedAt.
C21_RequestedNotAfterReceived ==
  \A k \in TimedCalls :
    (tsPc[k] = "recorded" /\ ts[k].receivedAt # Absent) =>
      ts[k].requestedAt <= ts[k].receivedAt

(***************************************************************************)
(* C25                                                                     *)
(***************************************************************************)

\* C25 as stated: no status set after ERROR is PROCESSING, SAVING or COMPLETE,
\* and a job that has set ERROR has made no createMany call.
C25_ErrorIsTerminal ==
  /\ \A i, j \in 1..Len(statusLog) :
       (i < j /\ statusLog[i] = "ERROR") =>
         statusLog[j] \notin {"PROCESSING", "SAVING", "COMPLETE"}
  /\ (\E i \in 1..Len(statusLog) : statusLog[i] = "ERROR") => batches = <<>>

(***************************************************************************)
(* C26                                                                     *)
(***************************************************************************)

\* C26 as stated: no update of the upload lowers its progress, every progress
\* written is within 0..100, and progress is 100 exactly when the status is
\* COMPLETE.
C26_ProgressNeverDecreases ==
  [][ /\ upload'.progress >= upload.progress
      /\ upload'.progress \in 0..100
      /\ upload'.progress = 100 <=> upload'.status = "COMPLETE" ]_vars

(***************************************************************************)
(* C27                                                                     *)
(***************************************************************************)

\* The statuses other than ERROR that the job has set, in order.
ProgressStatuses == SelectSeq(statusLog, LAMBDA st : st # "ERROR")

\* C27: the statuses DOWNLOADING, PROCESSING, SAVING, COMPLETE are only ever
\* set in that order, each at most once; every createMany call takes at most
\* BatchSize rows and the calls go table by table, inputs, then outputs, then
\* node data; and when the status is COMPLETE every prepared row of each table
\* has been passed to exactly one createMany call, the token counting has been
\* enqueued once, and no more than maxEntriesToImport rows were prepared.
C27_CompleteAfterAllBatches ==
  /\ IsPrefix(ProgressStatuses, <<"DOWNLOADING", "PROCESSING", "SAVING", "COMPLETE">>)
  /\ \A b \in 1..Len(batches) :
       /\ batches[b].to - batches[b].from <= BatchSize
       /\ b > 1 => TableIndex(batches[b - 1].table) <= TableIndex(batches[b].table)
  /\ upload.status = "COMPLETE" =>
       /\ \A t \in 1..Len(Tables) :
            \A row \in 0..(PreparedRows(impInput) - 1) :
              Cardinality({b \in 1..Len(batches) :
                             /\ batches[b].table = Tables[t]
                             /\ batches[b].from <= row
                             /\ row < batches[b].to}) = 1
       /\ enqueued = 1
       /\ PreparedRows(impInput) <= impInput.maxEntriesToImport

\* A file of 2500 good rows imported with maxEntriesToImport 2000: COMPLETE
\* after two batches per table.
C27_Witness ==
  /\ upload.status = "COMPLETE"
  /\ impInput.goodRows = 2500
  /\ impInput.maxEntriesToImport = 2000
  /\ Len(batches) = 6
  /\ enqueued = 1

(***************************************************************************)
(* C28                                                                     *)
(***************************************************************************)

\* The credentials accounts of user id.
CredentialsAccounts(id) ==
  {acc \in accounts : acc.userId = id /\ acc.provider = "credentials"}

\* C28 as stated: under any interleaving of authorize calls no two users share
\* an email; a call that found a user returns it and has created neither a
\* user nor an account; and once every call that was made has ended, each
\* user has exactly one credentials account, whose providerAccountId is the id
\* of the user.
C28_FindOrCreatePerEmail ==
  /\ \A u, v \in users : u.email = v.email => u = v
  /\ \A a \in AuthCalls :
       (authPc[a] = "done" /\ authCall[a].user # NoUser /\ ~authCall[a].createdUser) =>
         /\ authCall[a].result = "ok"
         /\ ~authCall[a].createdAccount
  /\ (\A a \in AuthCalls : authPc[a] \in {"idle", "done"}) =>
       \A u \in users :
         /\ Cardinality(CredentialsAccounts(u.id)) = 1
         /\ \A acc \in CredentialsAccounts(u.id) : acc.providerAccountId = u.id

====
